---- MODULE Spec2Model ----
\* Model of chunkwm's core window and application state, src/core/state.cpp.
\*
\* The two registries Applications and Windows, the mutex WindowsLock and
\* every function of state.cpp are modelled statement by statement; each
\* thread has a program counter and the locals of the function it is in.
\* The accessibility service AXLib and the consumers of the events built
\* by ConstructEvent are not part of state.cpp; they are modelled from the
\* interface description of the specification.
EXTENDS Integers, Sequences, FiniteSets, TLC

\* Bounds of the model
NumThreads == 2
MaxWin == 2
MaxPid == 1
MaxRec == 4
MaxApp == 2
\* Tighter bounds of the specification in which two threads interleave
ConcWin == 1
ConcRec == 2
ConcApp == 1
\* Entry points called in the specification in which one thread runs
MaxCalls == 3
\* Entry points called in the specification with fair scheduling
FairCalls == 2

NULL == 0

Threads == 1..NumThreads
\* OS window handles (AXUIElementRef); the CGWindowID of handle h is h.
Handles == 1..MaxWin
WinIds == 0..MaxWin
Pids == 1..MaxPid
WRecs == 1..MaxRec
ARecs == 1..MaxApp

LookupKinds ==
    {"WindowFocused", "WindowMoved", "WindowResized",
     "WindowMinimized", "WindowDeminimized", "WindowTitleChanged"}

VARIABLES
    Windows,        \* macos_window_map: window id -> window record or NULL
    WindowsLock,    \* pthread_mutex_t: NULL when free, else the holding thread
    Applications,   \* macos_application_map: pid -> application record or NULL
    wRec,           \* the macos_window records constructed so far
    aRec,           \* the macos_application records constructed so far
    subs,           \* active destroy-notification subscriptions per window record
    hstate,         \* OS: "none" | "open" | "closed" per handle
    pendC,          \* OS: window-created notifications in flight, <<application, handle>>
    pendD,          \* OS: destroy notifications in flight (the subscribed record)
    pc,             \* per thread: position in the code
    op,             \* per thread: the entry point it is executing
    List,           \* per thread: rest of WindowList (AddApplicationWindowsToCollection)
    Window,         \* per thread: local Window
    Id,             \* per thread: argument of GetWindowByID
    Result,         \* per thread: local bool Result of AddWindowToCollection
    ResultWindow,   \* per thread: local macos_window *Result of GetWindowByID
    ResultInit,     \* per thread: local bool Result of InitState
    Application,    \* per thread: local Application
    It,             \* per thread: iterator of UpdateWindowCollection / Index of InitState
    Running,        \* per thread: RunningApplications of InitState
    ev,             \* per thread: the event handed to ConstructEvent by the running callback
    added,          \* history: the records AddWindowToCollection has inserted
    done,           \* history: the created/destroyed notifications fully processed, <<kind, handle>>
    calls,          \* history: the number of entry points called so far
    snap            \* history: the registry as the previous UpdateWindowCollection left it

osvars == <<hstate, pendC, pendD>>
heap == <<wRec, aRec, subs>>
locals == <<List, Window, Id, Result, ResultWindow, ResultInit, Application, It, Running, ev>>
vars == <<Windows, WindowsLock, Applications, wRec, aRec, subs, hstate, pendC, pendD,
          pc, op, List, Window, Id, Result, ResultWindow, ResultInit, Application, It, Running, ev,
          added, done, calls, snap>>

\* Helpers
\* The process an element belongs to: two windows per process.
HandlePid(h) == (((h - 1) \div 2) % MaxPid) + 1

\* AXLibGetWindowID: the CGWindowID of an element, 0 once the element has
\* been torn down.
AXLibGetWindowID(h) == IF hstate[h] = "open" THEN h ELSE 0

NoEvent == <<>>
NoSnap == [Valid |-> FALSE, Windows |-> [i \in WinIds |-> NULL], Records |-> 0]

Goto(t, l) == pc' = [pc EXCEPT ![t] = l]

AppLive(a) == a \in 1..Len(aRec) /\ ~aRec[a].Destroyed

Set(f, t, v) == [f EXCEPT ![t] = v]

\* The elements of a set of integers in increasing order.
RECURSIVE Sorted(_)
Sorted(S) ==
    IF S = {} THEN <<>>
    ELSE LET m == CHOOSE x \in S : \A y \in S : x <= y
         IN <<m>> \o Sorted(S \ {m})

\* The records released so far: the allocator may hand their memory out again.
Released == {r \in 1..Len(wRec) : wRec[r].Destroyed > 0}

\* AXLibConstructWindow: a fresh record for an element of an application,
\* possibly in the memory of a record released before.
AXLibConstructWindow(a, h) ==
    [Id |-> AXLibGetWindowID(h), Ref |-> h, Owner |-> a, Destroyed |-> 0,
     Reuses |-> Released]

\* AXLibDestroyWindow: releases the record; the count makes a second release visible.
AXLibDestroyWindow(w, r) ==
    [w EXCEPT ![r].Destroyed = IF @ < 2 THEN @ + 1 ELSE @]

\* AXLibConstructApplication
AXLibConstructApplication(pid) ==
    [PID |-> pid, Observed |-> FALSE, Destroyed |-> FALSE]

\* AXLibWindowListForApplication: the elements the OS lists for the application.
AXLibWindowListForApplication(a) ==
    Sorted({h \in Handles : hstate[h] = "open" /\ HandlePid(h) = aRec[a].PID})

\* Serialisation of the entry points that touch the Application Registry.
RegistryWriters == {"InitState", "ConstructAndAddApplication", "RemoveAndDestroyApplication"}
RegistryUsers == RegistryWriters \cup {"UpdateWindowCollection"}
Initialised == \A u \in Threads : pc[u] \notin {"is_init", "failed"}
MayWrite(t) == Initialised /\ pc[t] = "idle" /\ \A u \in Threads \ {t} : op[u] \notin RegistryUsers
MayRead(t) == Initialised /\ pc[t] = "idle" /\ \A u \in Threads \ {t} : op[u] \notin RegistryWriters
MayCall(t) == Initialised /\ pc[t] = "idle"


\* Mutant: GetWindowByID reads the map without taking WindowsLock.
GetWindowByID_NoLock(t) ==
    /\ pc[t] = "gw_lock"
    /\ Goto(t, "gw_find")
    /\ UNCHANGED <<Windows, WindowsLock, Applications, heap, osvars, op, locals>>

\* ---- GetWindowByID, lines 30-39
GetWindowByID_Lock(t) ==
    /\ pc[t] = "gw_lock"
    /\ WindowsLock = NULL
    /\ WindowsLock' = t
    /\ Goto(t, "gw_find")
    /\ UNCHANGED <<Windows, Applications, heap, osvars, op, locals>>

GetWindowByID_Find(t) ==
    /\ pc[t] = "gw_find"
    /\ ResultWindow' = Set(ResultWindow, t, Windows[Id[t]])
    /\ Goto(t, "gw_unlock")
    /\ UNCHANGED <<Windows, WindowsLock, Applications, heap, osvars, op,
                   List, Window, Id, Result, ResultInit, Application, It, Running, ev>>

GetWindowByID_Unlock(t) ==
    /\ pc[t] = "gw_unlock"
    /\ WindowsLock' = NULL
    /\ Goto(t, IF op[t] \in LookupKinds THEN "cb_emit" ELSE "d_check")
    /\ UNCHANGED <<Windows, Applications, heap, osvars, op, locals>>


\* ---- AddWindowToCollection, lines 43-64
AddWindowToCollection_CheckId(t) ==
    /\ pc[t] = "aw_check"
    /\ IF wRec[Window[t]].Id = 0
       THEN Goto(t, "aw_ret") /\ Result' = Set(Result, t, FALSE)
       ELSE Goto(t, "aw_sub") /\ Result' = Result
    /\ UNCHANGED <<Windows, WindowsLock, Applications, heap, osvars, op,
                   List, Window, Id, ResultWindow, ResultInit, Application, It, Running, ev>>


\* AXLibAddObserverNotification succeeds or fails as the OS decides.
AddWindowToCollection_Subscribe(t) ==
    /\ pc[t] = "aw_sub"
    /\ \E Success \in BOOLEAN :
          /\ Goto(t, IF Success THEN "aw_lock" ELSE "aw_ret")
          /\ Result' = Set(Result, t, Success)
          /\ subs' = IF Success THEN [subs EXCEPT ![Window[t]] = @ + 1] ELSE subs
    /\ UNCHANGED <<Windows, WindowsLock, Applications, wRec, aRec, osvars, op,
                   List, Window, Id, ResultWindow, ResultInit, Application, It, Running, ev>>

AddWindowToCollection_Lock(t) ==
    /\ pc[t] = "aw_lock"
    /\ WindowsLock = NULL
    /\ WindowsLock' = t
    /\ Goto(t, "aw_insert")
    /\ UNCHANGED <<Windows, Applications, heap, osvars, op, locals>>

\* The live records that may occupy the memory of the released record r.
Aliases(r) == {x \in 1..Len(wRec) : r \in wRec[x].Reuses /\ wRec[x].Destroyed = 0}

\* Line 59 reads Window->Id.  No lock is held between lines 51 and 58, so the
\* destroy notification may have released the record by now; the read is then
\* of freed memory: it gives any identifier with the dangling pointer stored,
\* or the record that has taken that memory, stored under its identifier.
AddWindowToCollection_Insert(t) ==
    /\ pc[t] = "aw_insert"
    /\ IF wRec[Window[t]].Destroyed = 0
       THEN Windows' = [Windows EXCEPT ![wRec[Window[t]].Id] = Window[t]]
       ELSE \/ \E id \in WinIds : Windows' = [Windows EXCEPT ![id] = Window[t]]
            \/ \E x \in Aliases(Window[t]) : Windows' = [Windows EXCEPT ![wRec[x].Id] = x]
    /\ Goto(t, "aw_unlock")
    /\ UNCHANGED <<WindowsLock, Applications, heap, osvars, op, locals>>


\* Mutant: AddWindowToCollection returns without releasing WindowsLock.
AddWindowToCollection_NoUnlock(t) ==
    /\ pc[t] = "aw_unlock"
    /\ Goto(t, "aw_ret")
    /\ UNCHANGED <<Windows, WindowsLock, Applications, heap, osvars, op, locals>>

\* Lines 60-63.
AddWindowToCollection_Unlock(t) ==
    /\ pc[t] = "aw_unlock"
    /\ WindowsLock' = NULL
    /\ Goto(t, "aw_ret")
    /\ UNCHANGED <<Windows, Applications, heap, osvars, op, locals>>

\* ---- RemoveWindowFromCollection, lines 67-74
RemoveWindowFromCollection_Lock(t) ==
    /\ pc[t] = "rw_lock"
    /\ WindowsLock = NULL
    /\ WindowsLock' = t
    /\ Goto(t, "rw_erase")
    /\ UNCHANGED <<Windows, Applications, heap, osvars, op, locals>>


\* Mutant: the whole map is cleared instead of the one key.
RemoveWindowFromCollection_EraseAll(t) ==
    /\ pc[t] = "rw_erase"
    /\ Windows' = [i \in WinIds |-> NULL]
    /\ Goto(t, "rw_unlock")
    /\ UNCHANGED <<WindowsLock, Applications, heap, osvars, op, locals>>

RemoveWindowFromCollection_Erase(t) ==
    /\ pc[t] = "rw_erase"
    /\ Windows' = [Windows EXCEPT ![wRec[Window[t]].Id] = NULL]
    /\ Goto(t, "rw_unlock")
    /\ UNCHANGED <<WindowsLock, Applications, heap, osvars, op, locals>>

RemoveWindowFromCollection_Unlock(t) ==
    /\ pc[t] = "rw_unlock"
    /\ WindowsLock' = NULL
    /\ Goto(t, "rw_unsub")
    /\ UNCHANGED <<Windows, Applications, heap, osvars, op, locals>>

\* AXLibRemoveObserverNotification is keyed by the observer and the element:
\* it ends the destroy subscription of that element on the owner's observer.
AXLibRemoveObserverNotification(r) ==
    [x \in WRecs |->
        IF x \in 1..Len(wRec) /\ wRec[x].Owner = wRec[r].Owner /\ wRec[x].Ref = wRec[r].Ref
        THEN 0 ELSE subs[x]]

RemoveWindowFromCollection_Unsubscribe(t) ==
    /\ pc[t] = "rw_unsub"
    /\ subs' = AXLibRemoveObserverNotification(Window[t])
    /\ Goto(t, "rw_ret")
    /\ UNCHANGED <<Windows, WindowsLock, Applications, wRec, aRec, osvars, op, locals>>

\* ---- AddApplicationWindowsToCollection, lines 89-116
\* Line 92: the window list holds one fresh record per listed element.
Discover_Enumerate(t) ==
    /\ pc[t] = "d_enum"
    /\ LET hs == AXLibWindowListForApplication(Application[t])
           n == Len(wRec)
       IN /\ n + Len(hs) <= MaxRec
          /\ wRec' = wRec \o [i \in 1..Len(hs) |-> AXLibConstructWindow(Application[t], hs[i])]
          /\ List' = Set(List, t, [i \in 1..Len(hs) |-> n + i])
          /\ Goto(t, IF hs = <<>> THEN "d_done" ELSE "d_next")
    /\ UNCHANGED <<Windows, WindowsLock, Applications, aRec, subs, osvars, op,
                   Window, Id, Result, ResultWindow, ResultInit, Application, It, Running, ev>>

\* Line 98: Window = *List++, then the call of GetWindowByID(Window->Id) of line 100.
Discover_Next(t) ==
    /\ pc[t] = "d_next"
    /\ IF List[t] = <<>>
       THEN /\ Goto(t, "d_done")
            /\ UNCHANGED <<List, Window, Id>>
       ELSE /\ Window' = Set(Window, t, Head(List[t]))
            /\ List' = Set(List, t, Tail(List[t]))
            /\ Id' = Set(Id, t, wRec[Head(List[t])].Id)
            /\ Goto(t, "gw_lock")
    /\ UNCHANGED <<Windows, WindowsLock, Applications, heap, osvars, op,
                   Result, ResultWindow, ResultInit, Application, It, Running, ev>>


\* Mutant: the duplicate test of line 100 is missing.
Discover_CheckNoDupe(t) ==
    /\ pc[t] = "d_check"
    /\ Goto(t, "aw_check")
    /\ UNCHANGED <<Windows, WindowsLock, Applications, heap, osvars, op, locals>>

\* Lines 100-103: a window already in the collection is a duplicate and is released.
Discover_Check(t) ==
    /\ pc[t] = "d_check"
    /\ IF ResultWindow[t] # NULL
       THEN /\ wRec' = AXLibDestroyWindow(wRec, Window[t])
            /\ Goto(t, "d_next")
       ELSE /\ wRec' = wRec
            /\ Goto(t, "aw_check")
    /\ UNCHANGED <<Windows, WindowsLock, Applications, aRec, subs, osvars, op, locals>>

\* Lines 106-110: a window that could not be added is released.
Discover_Added(t) ==
    /\ pc[t] = "aw_ret"
    /\ wRec' = IF Result[t] = FALSE THEN AXLibDestroyWindow(wRec, Window[t]) ELSE wRec
    /\ Goto(t, "d_next")
    /\ UNCHANGED <<Windows, WindowsLock, Applications, aRec, subs, osvars, op, locals>>

\* The first key of the map after key k, or NULL at the end of the map.
NextKey(k) ==
    LET S == {p \in Pids : p > k /\ Applications[p] # NULL}
    IN IF S = {} THEN NULL ELSE CHOOSE p \in S : \A q \in S : p <= q

\* Lines 114-115, and the return into the caller of the discovery.
Discover_Done(t) ==
    /\ pc[t] = "d_done"
    /\ CASE op[t] = "UpdateWindowCollection" ->
                It' = Set(It, t, NextKey(It[t])) /\ Goto(t, "uw_iter")
         [] op[t] = "InitState" ->
                It' = Set(It, t, It[t] + 1) /\ Goto(t, "is_loop")
         [] OTHER ->
                It' = It /\ Goto(t, "ret")
    /\ UNCHANGED <<Windows, WindowsLock, Applications, heap, osvars, op,
                   List, Window, Id, Result, ResultWindow, ResultInit, Application, Running, ev>>

\* ---- UpdateWindowCollection, lines 286-295
UpdateWindowCollection(t) ==
    /\ MayRead(t)
    /\ op' = Set(op, t, "UpdateWindowCollection")
    /\ It' = Set(It, t, NextKey(0))
    /\ Goto(t, "uw_iter")
    /\ UNCHANGED <<Windows, WindowsLock, Applications, heap, osvars,
                   List, Window, Id, Result, ResultWindow, ResultInit, Application, Running, ev>>

UpdateWindowCollection_Iterate(t) ==
    /\ pc[t] = "uw_iter"
    /\ IF It[t] = NULL
       THEN Application' = Application /\ Goto(t, "ret")
       ELSE Application' = Set(Application, t, Applications[It[t]]) /\ Goto(t, "d_enum")
    /\ UNCHANGED <<Windows, WindowsLock, Applications, heap, osvars, op,
                   List, Window, Id, Result, ResultWindow, ResultInit, It, Running, ev>>


\* Mutant: the entry of the process is overwritten by the new record.
AddApplication_Overwrite(apps, a, pid) ==
    [apps EXCEPT ![pid] = a]

\* ---- AddApplication, lines 132-140
AddApplication(apps, a, pid) ==
    IF apps[pid] = NULL THEN [apps EXCEPT ![pid] = a] ELSE apps

\* ---- GetApplicationFromPID, lines 119-130
GetApplicationFromPID(pid) == Applications[pid]

\* ---- ConstructAndAddApplication, lines 235-273
\* Lines 237-238.
ConstructAndAddApplication(t, pid) ==
    /\ MayWrite(t)
    /\ Len(aRec) < MaxApp
    /\ LET a == Len(aRec) + 1
       IN /\ aRec' = Append(aRec, AXLibConstructApplication(pid))
          /\ Applications' = AddApplication(Applications, a, pid)
          /\ Application' = Set(Application, t, a)
    /\ op' = Set(op, t, "ConstructAndAddApplication")
    /\ Goto(t, "ca_observe")
    /\ UNCHANGED <<Windows, WindowsLock, wRec, subs, osvars,
                   List, Window, Id, Result, ResultWindow, ResultInit, It, Running, ev>>


\* Mutant: a failed observer attachment undoes the admission and returns.
ConstructAndAddApplication_ObserveOrUndo(t) ==
    /\ pc[t] = "ca_observe"
    /\ \E ok \in BOOLEAN :
          /\ aRec' = [aRec EXCEPT ![Application[t]].Observed = ok]
          /\ Applications' = IF ok THEN Applications
                             ELSE [Applications EXCEPT ![aRec[Application[t]].PID] = NULL]
          /\ Goto(t, IF ok THEN "d_enum" ELSE "ret")
    /\ UNCHANGED <<Windows, WindowsLock, wRec, subs, osvars, op, locals>>

\* Lines 256-266: AXLibAddApplicationObserver succeeds or fails; line 270 follows.
ConstructAndAddApplication_Observe(t) ==
    /\ pc[t] = "ca_observe"
    /\ \E ok \in BOOLEAN :
          aRec' = [aRec EXCEPT ![Application[t]].Observed = ok]
    /\ Goto(t, "d_enum")
    /\ UNCHANGED <<Windows, WindowsLock, Applications, wRec, subs, osvars, op, locals>>

\* AXLibDestroyApplication releases the record and its observer: the
\* subscriptions made through that observer end with it, and so do the
\* notifications it had not delivered yet.
SubsWithoutObserver(a) ==
    [x \in WRecs |-> IF x \in 1..Len(wRec) /\ wRec[x].Owner = a THEN 0 ELSE subs[x]]


\* Mutant: the entry of the process is left in the map.
RemoveAndDestroyApplication_KeepEntry(t, a) ==
    /\ MayWrite(t)
    /\ AppLive(a)
    /\ aRec' = [aRec EXCEPT ![a].Destroyed = TRUE, ![a].Observed = FALSE]
    /\ subs' = SubsWithoutObserver(a)
    /\ pendC' = {n \in pendC : n[1] # a}
    /\ pendD' = {r \in pendD : wRec[r].Owner # a}
    /\ op' = Set(op, t, "RemoveAndDestroyApplication")
    /\ Application' = Set(Application, t, a)
    /\ Goto(t, "ret")
    /\ UNCHANGED <<Windows, WindowsLock, Applications, wRec, hstate,
                   List, Window, Id, Result, ResultWindow, ResultInit, It, Running, ev>>

\* ---- RemoveAndDestroyApplication, lines 275-284
RemoveAndDestroyApplication(t, a) ==
    /\ MayWrite(t)
    /\ AppLive(a)
    /\ Applications' = [Applications EXCEPT ![aRec[a].PID] = NULL]
    /\ aRec' = [aRec EXCEPT ![a].Destroyed = TRUE, ![a].Observed = FALSE]
    /\ subs' = SubsWithoutObserver(a)
    /\ pendC' = {n \in pendC : n[1] # a}
    /\ pendD' = {r \in pendD : wRec[r].Owner # a}
    /\ op' = Set(op, t, "RemoveAndDestroyApplication")
    /\ Application' = Set(Application, t, a)
    /\ Goto(t, "ret")
    /\ UNCHANGED <<Windows, WindowsLock, wRec, hstate,
                   List, Window, Id, Result, ResultWindow, ResultInit, It, Running, ev>>

\* AXLibRunningProcesses: one fresh application record per running process.
AXLibRunningProcesses(S) ==
    LET ps == Sorted(S)
    IN [i \in 1..Len(ps) |-> AXLibConstructApplication(ps[i])]

\* ---- InitState, lines 298-318
\* Lines 300-304: pthread_mutex_init and the list of running applications.
InitState_Begin(t) ==
    /\ pc[t] = "is_init"
    /\ \E ok \in BOOLEAN :
          IF ok
          THEN \E S \in SUBSET Pids :
                  /\ Len(aRec) + Cardinality(S) <= MaxApp
                  /\ Goto(t, "is_loop")
                  /\ aRec' = aRec \o AXLibRunningProcesses(S)
                  /\ Running' = Set(Running, t, [i \in 1..Cardinality(S) |-> Len(aRec) + i])
                  /\ It' = Set(It, t, 1)
                  /\ ResultInit' = Set(ResultInit, t, TRUE)
          ELSE /\ Goto(t, "failed")
               /\ ResultInit' = Set(ResultInit, t, FALSE)
               /\ UNCHANGED <<aRec, Running, It>>
    /\ UNCHANGED <<Windows, WindowsLock, Applications, wRec, subs, osvars, op,
                   List, Window, Id, Result, ResultWindow, Application, ev>>

\* Lines 306-314: AddApplication, AXLibAddApplicationObserver, then the discovery.
InitState_Loop(t) ==
    /\ pc[t] = "is_loop"
    /\ IF It[t] > Len(Running[t])
       THEN /\ Goto(t, "ret")
            /\ UNCHANGED <<Applications, aRec, Application>>
       ELSE LET a == Running[t][It[t]]
            IN /\ Applications' = AddApplication(Applications, a, aRec[a].PID)
               /\ \E ok \in BOOLEAN : aRec' = [aRec EXCEPT ![a].Observed = ok]
               /\ Application' = Set(Application, t, a)
               /\ Goto(t, "d_enum")
    /\ UNCHANGED <<Windows, WindowsLock, wRec, subs, osvars, op,
                   List, Window, Id, Result, ResultWindow, ResultInit, It, Running, ev>>

\* ---- ApplicationCallback, lines 142-232

\* Lines 147-151: kAXWindowCreatedNotification.
ApplicationCallback_WindowCreated(t, n) ==
    /\ MayCall(t)
    /\ n \in pendC
    /\ Len(wRec) < MaxRec
    /\ wRec' = Append(wRec, AXLibConstructWindow(n[1], n[2]))
    /\ pendC' = pendC \ {n}
    /\ Window' = Set(Window, t, Len(wRec) + 1)
    /\ Application' = Set(Application, t, n[1])
    /\ ev' = Set(ev, t, <<"WindowCreated", Len(wRec) + 1>>)
    /\ op' = Set(op, t, "WindowCreated")
    /\ Goto(t, "ev_created")
    /\ UNCHANGED <<Windows, WindowsLock, Applications, aRec, subs, hstate, pendD,
                   List, Id, Result, ResultWindow, ResultInit, It, Running>>

\* Lines 152-177: kAXUIElementDestroyedNotification, the reference is the window.
ApplicationCallback_WindowDestroyed(t, r) ==
    /\ MayCall(t)
    /\ r \in pendD
    /\ pendD' = pendD \ {r}
    /\ Window' = Set(Window, t, r)
    /\ ev' = Set(ev, t, <<"WindowDestroyed", r>>)
    /\ op' = Set(op, t, "WindowDestroyed")
    /\ Goto(t, "ev_destroyed")
    /\ UNCHANGED <<Windows, WindowsLock, Applications, heap, hstate, pendC,
                   List, Id, Result, ResultWindow, ResultInit, Application, It, Running>>

\* Lines 178-231: the six notifications resolved through GetWindowByID.
ApplicationCallback_Lookup(t, kind, a, h) ==
    /\ MayCall(t)
    /\ AppLive(a) /\ aRec[a].Observed
    /\ HandlePid(h) = aRec[a].PID
    /\ hstate[h] # "none"
    /\ Id' = Set(Id, t, AXLibGetWindowID(h))
    /\ Application' = Set(Application, t, a)
    /\ op' = Set(op, t, kind)
    /\ Goto(t, "gw_lock")
    /\ UNCHANGED <<Windows, WindowsLock, Applications, heap, osvars,
                   List, Window, Result, ResultWindow, ResultInit, It, Running, ev>>


\* Mutant: an event is constructed whether or not the window was found.
ApplicationCallback_EmitAlways(t) ==
    /\ pc[t] = "cb_emit"
    /\ ev' = Set(ev, t, <<op[t], ResultWindow[t]>>)
    /\ Goto(t, "ret")
    /\ UNCHANGED <<Windows, WindowsLock, Applications, heap, osvars, op,
                   List, Window, Id, Result, ResultWindow, ResultInit, Application, It, Running>>

\* Lines 182-185 (and the same lines of the five other branches).
ApplicationCallback_Emit(t) ==
    /\ pc[t] = "cb_emit"
    /\ ev' = Set(ev, t, IF ResultWindow[t] # NULL THEN <<op[t], ResultWindow[t]>> ELSE NoEvent)
    /\ Goto(t, "ret")
    /\ UNCHANGED <<Windows, WindowsLock, Applications, heap, osvars, op,
                   List, Window, Id, Result, ResultWindow, ResultInit, Application, It, Running>>

\* ---- The consumers of the WindowCreated and WindowDestroyed events
\* WindowCreated: the new record is admitted the way the discovery admits one.
HandleWindowCreated(t) ==
    /\ pc[t] = "ev_created"
    /\ Id' = Set(Id, t, wRec[Window[t]].Id)
    /\ Goto(t, "gw_lock")
    /\ UNCHANGED <<Windows, WindowsLock, Applications, heap, osvars, op,
                   List, Window, Result, ResultWindow, ResultInit, Application, It, Running, ev>>

\* WindowDestroyed: the record is unregistered ...
HandleWindowDestroyed(t) ==
    /\ pc[t] = "ev_destroyed"
    /\ Goto(t, "rw_lock")
    /\ UNCHANGED <<Windows, WindowsLock, Applications, heap, osvars, op, locals>>

\* ... and released once RemoveWindowFromCollection has returned.
HandleWindowDestroyed_Release(t) ==
    /\ pc[t] = "rw_ret"
    /\ wRec' = AXLibDestroyWindow(wRec, Window[t])
    /\ Goto(t, "ret")
    /\ UNCHANGED <<Windows, WindowsLock, Applications, aRec, subs, osvars, op, locals>>

\* ---- Return of an entry point to its caller
Return(t) ==
    /\ pc[t] = "ret"
    /\ pc' = Set(pc, t, "idle")
    /\ op' = Set(op, t, "none")
    /\ List' = Set(List, t, <<>>)
    /\ Window' = Set(Window, t, NULL)
    /\ Id' = Set(Id, t, 0)
    /\ Result' = Set(Result, t, FALSE)
    /\ ResultWindow' = Set(ResultWindow, t, NULL)
    /\ ResultInit' = Set(ResultInit, t, FALSE)
    /\ Application' = Set(Application, t, NULL)
    /\ It' = Set(It, t, NULL)
    /\ Running' = Set(Running, t, <<>>)
    /\ ev' = Set(ev, t, NoEvent)
    /\ UNCHANGED <<Windows, WindowsLock, Applications, heap, osvars>>

\* ---- The OS: windows open and close on their own
OSOpenWindow(h) ==
    /\ hstate[h] = "none"
    /\ hstate' = [hstate EXCEPT ![h] = "open"]
    /\ pendC' = pendC \cup
          {<<a, h>> : a \in {x \in 1..Len(aRec) :
                                AppLive(x) /\ aRec[x].Observed /\ aRec[x].PID = HandlePid(h)}}
    /\ UNCHANGED <<Windows, WindowsLock, Applications, heap, pendD, pc, op, locals>>

OSCloseWindow(h) ==
    /\ hstate[h] = "open"
    /\ hstate' = [hstate EXCEPT ![h] = "closed"]
    /\ pendD' = pendD \cup {r \in 1..Len(wRec) : subs[r] > 0 /\ wRec[r].Ref = h}
    /\ UNCHANGED <<Windows, WindowsLock, Applications, heap, pendC, pc, op, locals>>

\* ---- The state at the call of InitState by the main thread
Init ==
    /\ Windows = [i \in WinIds |-> NULL]
    /\ WindowsLock = NULL
    /\ Applications = [p \in Pids |-> NULL]
    /\ wRec = <<>>
    /\ aRec = <<>>
    /\ subs = [r \in WRecs |-> 0]
    /\ hstate = [h \in Handles |-> "none"]
    /\ pendC = {}
    /\ pendD = {}
    /\ pc = [t \in Threads |-> IF t = 1 THEN "is_init" ELSE "idle"]
    /\ op = [t \in Threads |-> IF t = 1 THEN "InitState" ELSE "none"]
    /\ List = [t \in Threads |-> <<>>]
    /\ Window = [t \in Threads |-> NULL]
    /\ Id = [t \in Threads |-> 0]
    /\ Result = [t \in Threads |-> FALSE]
    /\ ResultWindow = [t \in Threads |-> NULL]
    /\ ResultInit = [t \in Threads |-> FALSE]
    /\ Application = [t \in Threads |-> NULL]
    /\ It = [t \in Threads |-> NULL]
    /\ Running = [t \in Threads |-> <<>>]
    /\ ev = [t \in Threads |-> NoEvent]
    /\ added = {}
    /\ done = {}
    /\ calls = 0
    /\ snap = NoSnap

Next ==
    \/ \E t \in Threads :
          \/ GetWindowByID_Lock(t)
          \/ GetWindowByID_Find(t)
          \/ GetWindowByID_Unlock(t)
          \/ AddWindowToCollection_CheckId(t)
          \/ AddWindowToCollection_Subscribe(t)
          \/ AddWindowToCollection_Lock(t)
          \/ AddWindowToCollection_Insert(t)
          \/ AddWindowToCollection_Unlock(t)
          \/ RemoveWindowFromCollection_Lock(t)
          \/ RemoveWindowFromCollection_Erase(t)
          \/ RemoveWindowFromCollection_Unlock(t)
          \/ RemoveWindowFromCollection_Unsubscribe(t)
          \/ Discover_Enumerate(t)
          \/ Discover_Next(t)
          \/ Discover_Check(t)
          \/ Discover_Added(t)
          \/ Discover_Done(t)
          \/ UpdateWindowCollection(t)
          \/ UpdateWindowCollection_Iterate(t)
          \/ \E pid \in Pids : ConstructAndAddApplication(t, pid)
          \/ ConstructAndAddApplication_Observe(t)
          \/ \E a \in ARecs : RemoveAndDestroyApplication(t, a)
          \/ InitState_Begin(t)
          \/ InitState_Loop(t)
          \/ \E n \in pendC : ApplicationCallback_WindowCreated(t, n)
          \/ \E r \in pendD : ApplicationCallback_WindowDestroyed(t, r)
          \/ \E kind \in LookupKinds, a \in ARecs, h \in Handles :
                ApplicationCallback_Lookup(t, kind, a, h)
          \/ ApplicationCallback_Emit(t)
          \/ HandleWindowCreated(t)
          \/ HandleWindowDestroyed(t)
          \/ HandleWindowDestroyed_Release(t)
          \/ Return(t)
    \/ \E h \in Handles : OSOpenWindow(h) \/ OSCloseWindow(h)

\* ---- History variables, kept beside the program's steps
StepsFrom(l, m) == {t \in Threads : pc[t] = l /\ pc'[t] = m}

History ==
    /\ added' = added \cup {Window[t] : t \in StepsFrom("aw_insert", "aw_unlock")}
    /\ done' = done \cup
          {<<op[t], wRec[Window[t]].Ref>> :
              t \in {u \in StepsFrom("ret", "idle") : op[u] \in {"WindowCreated", "WindowDestroyed"}}}

\* snap is the registry at the return of an UpdateWindowCollection for as long
\* as nothing but the next UpdateWindowCollection of that thread has happened.
SnapHistory ==
    snap' = IF StepsFrom("ret", "idle") # {} /\ \A t \in StepsFrom("ret", "idle") : op[t] = "UpdateWindowCollection"
            THEN [Valid |-> TRUE, Windows |-> Windows, Records |-> Len(wRec)]
            ELSE IF \E t \in Threads : op[t] \in {"none", "UpdateWindowCollection"}
                                       /\ op'[t] = "UpdateWindowCollection"
                                       /\ pc'[t] # pc[t]
            THEN snap
            ELSE NoSnap

\* Of the six notifications that only look a window up, one is delivered.
OneKind == \A t \in Threads : op'[t] \in LookupKinds => op'[t] = "WindowFocused"

\* Two threads interleave, within the tighter bounds.
Bounded ==
    /\ Len(wRec') <= ConcRec
    /\ Len(aRec') <= ConcApp
    /\ \A h \in Handles : h > ConcWin => hstate'[h] = "none"
    /\ OneKind

NextConc == Next /\ Bounded /\ History /\ UNCHANGED <<calls, snap>>

Spec == Init /\ [][NextConc]_vars

\* One thread runs every entry point to its return; the windows of the OS
\* change between two entry points, not during one.
Sequential ==
    /\ \A t \in Threads \ {1} : pc'[t] = "idle"
    /\ hstate' # hstate => pc[1] \in {"idle", "is_init"}
    /\ calls' = calls + Cardinality({t \in Threads : pc[t] = "idle" /\ pc'[t] # "idle"})
    /\ calls' <= MaxCalls

NextSeq == Next /\ Sequential /\ OneKind /\ SnapHistory /\ UNCHANGED <<added, done>>

SpecSeq == Init /\ [][NextSeq]_vars

\* Two threads interleave within the tighter bounds and a budget of entry
\* points; each of the six lookup notifications is delivered.
Narrow ==
    /\ Len(wRec') <= ConcRec
    /\ Len(aRec') <= ConcApp
    /\ \A h \in Handles : h > ConcWin => hstate'[h] = "none"

Budget ==
    /\ calls' = calls + Cardinality({t \in Threads : pc[t] = "idle" /\ pc'[t] # "idle"})
    /\ calls' <= MaxCalls

NextRouter == Next /\ Narrow /\ Budget /\ History /\ UNCHANGED snap

SpecRouter == Init /\ [][NextRouter]_vars

\* A finite number of calls by two threads, each scheduled fairly.  An entry
\* point is called only while the records its discovery may construct fit,
\* so that no call waits for room; one kind of lookup notification is delivered.
Fits ==
    /\ Len(aRec') <= ConcApp
    /\ \A h \in Handles : h > ConcWin => hstate'[h] = "none"

Reserve ==
    (\E t \in Threads : pc[t] = "idle" /\ pc'[t] # "idle")
    => Len(wRec) + ConcWin * ConcApp * Cardinality({t \in Threads : pc'[t] \notin {"idle", "failed"}})
          <= MaxRec

FairBudget ==
    /\ calls' = calls + Cardinality({t \in Threads : pc[t] = "idle" /\ pc'[t] # "idle"})
    /\ calls' <= FairCalls

NextFair == Next /\ Fits /\ Reserve /\ FairBudget /\ OneKind /\ History /\ UNCHANGED snap

Advance(t) == NextFair /\ pc[t] \notin {"idle", "failed"} /\ pc'[t] # pc[t]

SpecFair == Init /\ [][NextFair]_vars /\ \A t \in Threads : WF_pc(Advance(t))

\* ---- Properties
Registered(r) == \E id \in WinIds : Windows[id] = r
Keys == {id \in WinIds : Windows[id] # NULL}
Idle == \A t \in Threads : pc[t] = "idle"

\* C1: when two discovery calls reach AddWindowToCollection with records of
\* the same window identifier, the two calls do not both succeed: one of
\* them registers the window, the other one finds the duplicate.
C1_OneRegistrationSucceeds ==
    \A t, u \in Threads :
        (/\ t # u
         /\ op[t] = "UpdateWindowCollection" /\ op[u] = "UpdateWindowCollection"
         /\ pc[t] = "aw_ret" /\ pc[u] = "aw_ret"
         /\ wRec[Window[t]].Id = wRec[Window[u]].Id)
        => ~(Result[t] = TRUE /\ Result[u] = TRUE)

\* C2: once a window-created notification and a destroy notification of a
\* window have both been processed, the Window Registry has no entry for
\* that window, whatever a concurrent discovery does.
C2_NoEntryAfterDestroy ==
    \A h \in Handles :
        (<<"WindowCreated", h>> \in done /\ <<"WindowDestroyed", h>> \in done)
        => Windows[h] = NULL

\* C3: the Window Registry never has an entry with key 0, nor an entry whose
\* record has Id 0.
C3_NoZeroId ==
    /\ Windows[0] = NULL
    /\ \A id \in WinIds : Windows[id] # NULL => wRec[Windows[id]].Id # 0

\* C4: every record in the Window Registry has exactly one active
\* destroy-notification subscription, and a record has none once
\* RemoveWindowFromCollection has returned for it.
C4_OneSubscription ==
    /\ \A id \in WinIds : Windows[id] # NULL => subs[Windows[id]] = 1
    /\ \A t \in Threads : pc[t] = "rw_ret" => subs[Window[t]] = 0

\* The second of two UpdateWindowCollection calls in succession has returned.
SecondRunDone == pc[1] = "ret" /\ op[1] = "UpdateWindowCollection" /\ snap.Valid
NewRecords == (snap.Records + 1)..Len(wRec)

\* C5 as claimed: a second discovery directly after the first leaves the
\* Window Registry exactly as the first left it and destroys every record of
\* the second enumeration.
C5_SecondRunChangesNothing ==
    SecondRunDone =>
        /\ Windows = snap.Windows
        /\ \A r \in NewRecords : wRec[r].Destroyed = 1

\* C5 as amended: a second discovery directly after the first leaves every
\* identifier that the first run left registered mapped to the same record,
\* and destroys every record of the second enumeration whose identifier was
\* registered; a window that was not registered is tried again.
C5_SecondRunKeepsRegistered ==
    SecondRunDone =>
        /\ \A id \in WinIds : snap.Windows[id] # NULL => Windows[id] = snap.Windows[id]
        /\ \A r \in NewRecords :
              snap.Windows[wRec[r].Id] # NULL => wRec[r].Destroyed = 1
        /\ \A id \in WinIds :
              (snap.Windows[id] = NULL /\ Windows[id] # NULL) => Windows[id] \in NewRecords

\* The second run enumerated a window that the first run had registered.
C5_Witness ==
    /\ SecondRunDone
    /\ \E r \in NewRecords : snap.Windows[wRec[r].Id] # NULL

\* C6: a thread that reads, inserts into or erases from the Windows map
\* holds WindowsLock, so no two threads are inside the map at once.
InMap == {"gw_find", "gw_unlock", "aw_insert", "aw_unlock", "rw_erase", "rw_unlock"}

C6_MapUnderLock ==
    /\ \A t \in Threads : pc[t] \in InMap => WindowsLock = t
    /\ Cardinality({t \in Threads : pc[t] \in InMap}) <= 1

\* A lookup waits for the lock while another thread inserts or erases.
C6_Witness ==
    \E t, u \in Threads :
        t # u /\ pc[t] = "gw_lock" /\ pc[u] \in {"aw_insert", "rw_erase"}

\* C7: RemoveAndDestroyApplication leaves the Window Registry as it was and
\* leaves no application under the process id, and a process id gets an
\* application again only when it is admitted again.
C7_RemovedApplication ==
    [][/\ \A t \in Threads :
             (pc[t] = "idle" /\ op'[t] = "RemoveAndDestroyApplication")
             => /\ Windows' = Windows
                /\ \A p \in Pids :
                      p = aRec[Application'[t]].PID => GetApplicationFromPID(p)' = NULL
       /\ \A p \in Pids :
             (GetApplicationFromPID(p) = NULL /\ GetApplicationFromPID(p)' # NULL)
             => \E t \in Threads :
                   /\ op'[t] \in {"ConstructAndAddApplication", "InitState"}
                   /\ GetApplicationFromPID(p)' = Application'[t]]_vars

\* An application was removed while windows of it were registered.
C7_Witness ==
    \E t \in Threads :
        /\ pc[t] = "ret" /\ op[t] = "RemoveAndDestroyApplication"
        /\ \E id \in WinIds : Windows[id] # NULL /\ wRec[Windows[id]].Owner = Application[t]

\* The first admission has returned and every window it listed was subscribed.
FirstAdmissionDone ==
    /\ pc[1] = "ret" /\ op[1] = "ConstructAndAddApplication"
    /\ Len(aRec) = 1
    /\ \A r \in 1..Len(wRec) : subs[r] = 1

\* C8: the admission of an application whose windows S are all subscribed
\* makes the key set of the Window Registry S; the destroy notification of
\* a window w then removes w and leaves every other entry as it was.
C8_AdmitThenDestroy ==
    /\ [](FirstAdmissionDone =>
             /\ Keys = {wRec[r].Id : r \in 1..Len(wRec)}
             /\ \A r \in 1..Len(wRec) : wRec[r].Id # 0 /\ Windows[wRec[r].Id] = r)
    /\ []((pc[1] = "ret" /\ op[1] = "WindowDestroyed") => Windows[wRec[Window[1]].Id] = NULL)
    /\ [][op[1] = "WindowDestroyed" =>
             \A id \in WinIds : id # wRec[Window[1]].Id => Windows'[id] = Windows[id]]_vars

\* The destroy notification of one of two registered windows was processed.
C8_Witness ==
    /\ pc[1] = "ret" /\ op[1] = "WindowDestroyed"
    /\ Len(aRec) = 1
    /\ wRec[Window[1]].Id # 0
    /\ \E id \in WinIds : id # wRec[Window[1]].Id /\ Windows[id] # NULL

\* C9: AddWindowToCollection returns false exactly when the Id is 0 or the
\* subscription fails, and then it has not changed the Window Registry and
\* the record is never in it; it returns true exactly when it has inserted
\* the record under its Id.
C9_AddContract ==
    /\ [](\A t \in Threads : pc[t] = "aw_ret" =>
             /\ Result[t] \in BOOLEAN
             /\ Result[t] <=> Window[t] \in added
             /\ ~Result[t] => ~Registered(Window[t]))
    /\ [](\A id \in WinIds : Windows[id] # NULL =>
             Windows[id] \in added /\ wRec[Windows[id]].Id = id)
    /\ [][\A t \in Threads :
             /\ (pc[t] \in {"aw_check", "aw_sub"} /\ pc'[t] # pc[t]) => Windows' = Windows
             /\ (pc[t] # "aw_ret" /\ pc'[t] = "aw_ret") =>
                   IF Result'[t]
                   THEN wRec[Window[t]].Id # 0 /\ pc[t] = "aw_unlock"
                   ELSE \/ wRec[Window[t]].Id = 0
                        \/ pc[t] = "aw_sub" /\ subs' = subs]_vars

\* C10: when no entry point is running, a window record is in the Window
\* Registry if and only if it is live: it was admitted, it has not been
\* destroyed, no destroy notification for its handle has been processed and
\* its owning application has not been destroyed.
LiveWindow(r) ==
    /\ r \in added
    /\ wRec[r].Destroyed = 0
    /\ <<"WindowDestroyed", wRec[r].Ref>> \notin done
    /\ ~aRec[wRec[r].Owner].Destroyed

C10_RegisteredIffLive ==
    Idle => \A r \in 1..Len(wRec) : Registered(r) <=> LiveWindow(r)

\* C11: the admission of an application whose process id is already in the
\* Application Registry leaves that registry as it was, from the call to the
\* return: GetApplicationFromPID gives the record registered before.
C11_DuplicateAdmission ==
    [][\A t \in Threads :
          /\ (/\ pc[t] = "idle" /\ op'[t] = "ConstructAndAddApplication"
              /\ GetApplicationFromPID(aRec'[Application'[t]].PID) # NULL)
             => Applications' = Applications
          /\ (op[t] = "ConstructAndAddApplication" /\ pc'[t] # pc[t])
             => Applications' = Applications]_vars

\* A duplicate admission has returned: the registry holds the older record.
C11_Witness ==
    \E t \in Threads :
        /\ pc[t] = "ret" /\ op[t] = "ConstructAndAddApplication"
        /\ GetApplicationFromPID(aRec[Application[t]].PID) \notin {NULL, Application[t]}

\* C12: at any time at most one application record that has been constructed
\* and not destroyed exists per process identifier.
C12_OneRecordPerPid ==
    \A a, b \in 1..Len(aRec) :
        (a # b /\ aRec[a].PID = aRec[b].PID) => (aRec[a].Destroyed \/ aRec[b].Destroyed)

\* C13: a failed observer attachment in ConstructAndAddApplication changes
\* no entry of either registry and is followed by the window discovery; the
\* call returns the record, which GetApplicationFromPID still finds.
C13_ObserverFailureTolerated ==
    /\ [][\A t \in Threads :
             (pc[t] = "ca_observe" /\ pc'[t] # pc[t])
             => /\ pc'[t] = "d_enum"
                /\ Applications' = Applications /\ Windows' = Windows
                /\ Application'[t] = Application[t] /\ Result'[t] = Result[t]]_vars
    /\ [](\A t \in Threads :
             (op[t] = "ConstructAndAddApplication" /\ Len(aRec) = 1)
             => GetApplicationFromPID(aRec[Application[t]].PID) = Application[t])

\* The admission returned an unobserved application whose window the
\* discovery has registered.
C13_Witness ==
    \E t \in Threads :
        /\ pc[t] = "ret" /\ op[t] = "ConstructAndAddApplication"
        /\ ~aRec[Application[t]].Observed
        /\ GetApplicationFromPID(aRec[Application[t]].PID) = Application[t]
        /\ \E id \in WinIds : Windows[id] # NULL /\ wRec[Windows[id]].Owner = Application[t]

\* C14: a focus-changed, moved, resized, minimized, restored or
\* title-changed notification looks the identifier of its handle up in the
\* Window Registry; if a record is found, one event of the matching kind is
\* emitted with that record, otherwise none; the callback changes neither
\* registry.
C14_LookupNotification ==
    /\ [](\A t \in Threads : op[t] \in LookupKinds =>
             ev[t] = IF pc[t] = "ret" /\ ResultWindow[t] # NULL
                     THEN <<op[t], ResultWindow[t]>> ELSE NoEvent)
    /\ [][\A t \in Threads :
             ((op[t] \in LookupKinds \/ op'[t] \in LookupKinds) /\ pc'[t] # pc[t])
             => /\ Windows' = Windows /\ Applications' = Applications
                /\ pc[t] = "idle" => Id'[t] \in {0} \cup Handles
                /\ pc[t] = "gw_find" => ResultWindow'[t] = Windows[Id[t]]
                /\ pc[t] \notin {"gw_find", "ret"} => ResultWindow'[t] = ResultWindow[t]]_vars

\* A title-changed notification of a registered window has emitted its event.
C14_Witness ==
    \E t \in Threads :
        /\ pc[t] = "ret" /\ op[t] = "WindowTitleChanged"
        /\ ResultWindow[t] # NULL /\ Windows[Id[t]] = ResultWindow[t]
        /\ ev[t] = <<"WindowTitleChanged", ResultWindow[t]>>

\* C15: the window-created notification constructs a new record from the
\* owning application and the handle and emits a WindowCreated event for it;
\* the record is admitted the way the discovery admits one: a duplicate of a
\* registered identifier is discarded, otherwise registration is attempted,
\* and when the notification has been processed the record is either in the
\* Window Registry or discarded.  The router runs on its own thread next to
\* the discovery of the main thread, so this is stated for every thread and
\* every interleaving; "already in the Window Registry" is what the lookup
\* of the admission found, "has been processed" is the step on which the
\* admission returns, and a record that the window's own destroyed
\* notification is unregistering by then counts as discarded.
C15_WindowCreated ==
    /\ [][\A t \in Threads :
             (op[t] = "WindowCreated" /\ pc[t] # "ret" /\ pc'[t] = "ret") =>
                /\ ev'[t] = <<"WindowCreated", Window[t]>>
                /\ wRec'[Window[t]].Owner = Application[t]
                /\ \/ /\ wRec'[Window[t]].Id # 0
                      /\ Windows'[wRec'[Window[t]].Id] = Window[t]
                      /\ wRec'[Window[t]].Destroyed = 0
                   \/ /\ \A id \in WinIds : Windows'[id] # Window[t]
                      /\ \/ wRec'[Window[t]].Destroyed > 0
                         \/ \E u \in Threads : /\ op'[u] = "WindowDestroyed"
                                                /\ Window'[u] = Window[t]]_vars
    /\ [][\A t \in Threads :
             /\ (pc[t] = "idle" /\ op'[t] = "WindowCreated")
                => /\ Window'[t] = Len(wRec) + 1
                   /\ Len(wRec') = Len(wRec) + 1
                   /\ <<wRec'[Window'[t]].Owner, wRec'[Window'[t]].Ref>> \in pendC
                   /\ Windows' = Windows
             /\ (op[t] = "WindowCreated" /\ pc[t] = "d_check" /\ pc'[t] # pc[t])
                => IF ResultWindow[t] # NULL
                   THEN pc'[t] = "d_next" /\ wRec'[Window[t]].Destroyed = 1
                   ELSE pc'[t] = "aw_check"]_vars

\* C16: once an application has been removed, the next UpdateWindowCollection
\* has, at its return, left no entry in the Window Registry that the removed
\* application owns.
C16_RefreshPurgesRemoved ==
    (pc[1] = "ret" /\ op[1] = "UpdateWindowCollection")
    => \A id \in WinIds :
          Windows[id] # NULL => ~aRec[wRec[Windows[id]].Owner].Destroyed

\* C17: RemoveWindowFromCollection of a record that is not in the Window
\* Registry leaves every entry of the registry as it was, also when another
\* record with the same identifier is registered.
C17_RemoveUnregistered ==
    [][\A t \in Threads :
          (pc[t] = "rw_erase" /\ pc'[t] # pc[t] /\ ~Registered(Window[t]))
          => Windows' = Windows]_vars

\* Only discoveries have constructed window records so far.
OnlyDiscoveries ==
    /\ done = {}
    /\ \A t \in Threads : op[t] \notin {"WindowCreated", "WindowDestroyed"}

\* C18: when the discoveries have finished, every record they constructed is
\* either the record the Window Registry maps its identifier to, or has been
\* destroyed exactly once, and never both, whatever the interleaving of the
\* discoveries.
C18_RegisteredOrDestroyed ==
    (Idle /\ OnlyDiscoveries) =>
        \A r \in 1..Len(wRec) :
            \/ Windows[wRec[r].Id] = r /\ wRec[r].Destroyed = 0
            \/ ~Registered(r) /\ wRec[r].Destroyed = 1

\* Every entry point called has returned.
Quiescent == \A t \in Threads : pc[t] \in {"idle", "failed"}

\* C19: WindowsLock is held only between the lock and the unlock of one map
\* access, so never across a return, a subscribe or unsubscribe call or the
\* emission of an event, and never acquired by its holder; under fair
\* scheduling a finite number of concurrent calls all return and leave the
\* lock free.
C19_LockDiscipline ==
    /\ [](WindowsLock # NULL => pc[WindowsLock] \in InMap)
    /\ [][\A t \in Threads :
             (pc[t] \in {"gw_lock", "aw_lock", "rw_lock"} /\ pc'[t] # pc[t])
             => WindowsLock = NULL /\ WindowsLock' = t]_vars
    /\ <>[](Quiescent /\ WindowsLock = NULL)

\* All the calls of the budget have returned after two threads inserted.
C19_Witness ==
    /\ Quiescent /\ WindowsLock = NULL
    /\ calls = FairCalls
    /\ Cardinality(added) >= 2

\* C20: with admissions and removals on one thread and every record removed
\* at most once, GetApplicationFromPID never gives a destroyed application
\* record.
C20_NoDestroyedApplication ==
    \A p \in Pids :
        GetApplicationFromPID(p) # NULL => ~aRec[GetApplicationFromPID(p)].Destroyed

\* Of two records admitted for one process id, the later one, which never
\* was in the registry, has been removed first.
C20_Witness ==
    \E a, b \in 1..Len(aRec) :
        /\ a < b /\ aRec[a].PID = aRec[b].PID
        /\ ~aRec[a].Destroyed /\ aRec[b].Destroyed
        /\ pc[1] = "ret" /\ op[1] = "RemoveAndDestroyApplication" /\ Application[1] = b

====
